---- MODULE Spec2Model ----
(***************************************************************************)
(* Model of openai_job_monitor.py: the job lifecycle database              *)
(* (update_job_database), its store (load_job_database /                   *)
(* save_job_database), the location filter and one monitoring cycle        *)
(* (run_check).                                                            *)
(*                                                                         *)
(* Python dicts are functions from key names to values, so that a missing  *)
(* key is a key outside DOMAIN.  Time is counted in ticks, TicksPerDay     *)
(* ticks to the day, so that timedelta.days is a real floor.               *)
(***************************************************************************)
EXTENDS Integers, Sequences, FiniteSets, TLC

(* ---------------- bounds ---------------- *)
MaxTime == 10
TicksPerDay == 2
MaxJobs == 2

(* ---------------- program constants ---------------- *)
RetentionDays == 5
FirstRunDays == 7

(* ---------------- strings as character sequences ---------------- *)
LowerChar(c) ==
  CASE c = "A" -> "a" [] c = "B" -> "b" [] c = "C" -> "c" [] c = "F" -> "f"
    [] c = "N" -> "n" [] c = "R" -> "r" [] c = "S" -> "s" [] c = "Y" -> "y"
    [] OTHER -> c

\* a slip at lines 74 and 82: the location is compared as it is spelled
lower_asis(s) == s

\* str.lower()
lower(s) == [i \in 1..Len(s) |-> LowerChar(s[i])]

\* Python's "needle in haystack" on str
Contains(needle, hay) ==
  \E o \in 0..(Len(hay) - Len(needle)) :
    \A i \in 1..Len(needle) : hay[o + i] = needle[i]

sf_keywords ==
  << <<"s","a","n"," ","f","r","a","n","c","i","s","c","o">>,
     <<"s","f">>,
     <<"b","a","y"," ","a","r","e","a">> >>

AnyKeyword(loc) == \E k \in 1..Len(sf_keywords) : Contains(sf_keywords[k], loc)

SanFranciscoCA == <<"S","a","n"," ","F","r","a","n","c","i","s","c","o",","," ","C","A">>
NewYork == <<"N","e","w"," ","Y","o","r","k">>
SFBayArea == <<"S","F"," ","B","a","y"," ","A","r","e","a">>

(* ---------------- dict helpers ---------------- *)
Has(d, k) == k \in DOMAIN d

\* d[k] = v
Put(d, k, v) == [x \in (DOMAIN d) \cup {k} |-> IF x = k THEN v ELSE d[x]]

\* d.update(e)
Update(d, e) == [x \in (DOMAIN d) \cup (DOMAIN e) |-> IF x \in DOMAIN e THEN e[x] ELSE d[x]]

\* d.get(k, default)
Get(d, k, default) == IF k \in DOMAIN d THEN d[k] ELSE default

(* ---------------- datetime ---------------- *)
isoformat(t) == [iso |-> t]

fromisoformat(s) == s.iso

\* (a - b).days
days(a, b) == (a - b) \div TicksPerDay

Max(a, b) == IF a >= b THEN a ELSE b

(* ---------------- inputs: what the API can return ---------------- *)
\* publishedAt of a posting that went up more than FirstRunDays before the
\* first clock reading, and of one that went up at the first reading
PublishedLongAgo == isoformat(0 - (FirstRunDays + 1) * TicksPerDay)
PublishedLately == isoformat(0)

Urls == {"u1"}

\* a posting whose primary location matches
Primary(u) ==
  [jobUrl |-> u, title |-> "t", location |-> SanFranciscoCA,
   secondaryLocations |-> <<>>, isRemote |-> FALSE, publishedAt |-> PublishedLongAgo]

\* a remote posting elsewhere with a matching secondary location
SecondaryRemote(u) ==
  [jobUrl |-> u, title |-> "t", location |-> NewYork,
   secondaryLocations |-> <<[location |-> SFBayArea]>>, isRemote |-> TRUE,
   publishedAt |-> PublishedLately]

\* a matching posting that lacks the title key
Untitled(u) ==
  [jobUrl |-> u, location |-> SanFranciscoCA,
   secondaryLocations |-> <<>>, isRemote |-> FALSE, publishedAt |-> PublishedLongAgo]

\* a posting elsewhere
Elsewhere(u) ==
  [jobUrl |-> u, title |-> "t", location |-> NewYork,
   secondaryLocations |-> <<>>, isRemote |-> FALSE, publishedAt |-> PublishedLately]

\* a matching posting that lacks the jobUrl key
NoUrlJob ==
  [title |-> "t", location |-> SanFranciscoCA,
   secondaryLocations |-> <<>>, isRemote |-> FALSE, publishedAt |-> PublishedLongAgo]

RawJobs ==
  UNION { {Primary(u), SecondaryRemote(u), Untitled(u), Elsewhere(u)} : u \in Urls }
    \cup {NoUrlJob}

\* the position of a posting on the job board
Rank(job) == IF Has(job, "jobUrl") THEN 1 ELSE 2

\* the job board lists each posting once, the one without a jobUrl last
JobLists ==
  { js \in UNION { [1..n -> RawJobs] : n \in 0..MaxJobs } :
      \A i, j \in 1..Len(js) : i < j => Rank(js[i]) < Rank(js[j]) }

Configs ==
  { [include_remote |-> <<>>, email_enabled |-> FALSE, first_run_days |-> FirstRunDays],
    [include_remote |-> <<"remote">>, email_enabled |-> TRUE, first_run_days |-> FirstRunDays] }

SeqHas(s, x) == \E i \in 1..Len(s) : s[i] = x

(* ---------------- filter_san_francisco_jobs ---------------- *)
\* the filter returns references to the fetched dicts: indices into jobs
RECURSIVE SecondaryMatch(_, _)
SecondaryMatch(secs, k) ==
  IF k > Len(secs) THEN FALSE
  ELSE IF AnyKeyword(lower(Get(secs[k], "location", <<>>))) THEN TRUE
  ELSE SecondaryMatch(secs, k + 1)

FilterOne(cfg, job, j) ==
  IF AnyKeyword(lower(Get(job, "location", <<>>)))
  THEN <<j>>
  ELSE (IF SecondaryMatch(Get(job, "secondaryLocations", <<>>), 1) THEN <<j>> ELSE <<>>)
       \o (IF Get(job, "isRemote", FALSE) /\ SeqHas(Get(cfg, "include_remote", <<>>), "remote")
           THEN <<j>> ELSE <<>>)

RECURSIVE FilterFrom(_, _, _)
FilterFrom(cfg, jobs, j) ==
  IF j > Len(jobs) THEN <<>>
  ELSE FilterOne(cfg, jobs[j], j) \o FilterFrom(cfg, jobs, j + 1)

filter_san_francisco_jobs(cfg, jobs) == FilterFrom(cfg, jobs, 1)

(* ---------------- the store ---------------- *)
NoFile == [kind |-> "absent", data |-> <<>>]
CorruptFile == [kind |-> "corrupt", data |-> <<>>]
JsonFile(recs) == [kind |-> "json", data |-> recs]

\* readOk = FALSE: open/read raises although the file is there
load_job_database(f, readOk) ==
  IF f.kind = "absent" THEN <<>>
  ELSE IF f.kind = "json" /\ readOk THEN f.data
  ELSE <<>>

\* so: "ok", "open_failed" (open raises, file untouched),
\*     "write_failed" (raises after open(..., 'w') truncated the file)
save_job_database(f, recs, so) ==
  CASE so = "ok" -> JsonFile(recs)
    [] so = "open_failed" -> f
    [] OTHER -> CorruptFile

SaveOutcomes == {"ok", "open_failed", "write_failed"}

(* ---------------- update_job_database ---------------- *)
\* The working state of one call: the fetched dicts and the loaded dicts are
\* mutated in place, updated_database and new_jobs hold references to them;
\* deleted lists the "Job deleted" log lines.
\*   <<"cur", j>> is jobs[j], <<"db", i>> is database[i]
Deref(st, ref) == IF ref[1] = "cur" THEN st.jobs[ref[2]] ELSE st.database[ref[2]]

DbKeys(database) == { database[i].jobUrl : i \in 1..Len(database) }

\* db_jobs_by_url = {job['jobUrl']: job for job in database}: the last one wins
DbIndex(database, u) ==
  CHOOSE i \in 1..Len(database) :
    /\ database[i].jobUrl = u
    /\ \A k \in (i + 1)..Len(database) : database[k].jobUrl # u

\* lines 145-150: the jobUrl is not in the database
NewJob(job, t) ==
  LET j1 == Put(job, "status", "ACTIVE")
      j2 == Put(j1, "first_seen", isoformat(t))
      j3 == Put(j2, "last_seen", isoformat(t))
  IN  Put(j3, "days_since_listed", 0)

\* a slip at line 137: the status of a record seen again is left as it was
ExistingJob_keepstatus(existing, job, t) ==
  LET e1 == Update(existing, job)
      e3 == Put(e1, "last_seen", isoformat(t))
  IN  Put(e3, "days_since_listed", days(t, fromisoformat(e3.first_seen)))

\* a slip at line 142: days_since_listed is not recomputed
ExistingJob_stale(existing, job, t) ==
  LET e1 == Update(existing, job)
      e2 == Put(e1, "status", "ACTIVE")
  IN  Put(e2, "last_seen", isoformat(t))

\* a different merge: a CLOSED record that reappears starts over as a new one
ExistingJob_fresh(existing, job, t) ==
  IF existing.status = "CLOSED"
  THEN NewJob(Update(existing, job), t)
  ELSE LET e1 == Update(existing, job)
           e2 == Put(e1, "status", "ACTIVE")
           e3 == Put(e2, "last_seen", isoformat(t))
       IN  Put(e3, "days_since_listed", days(t, fromisoformat(e3.first_seen)))

\* lines 133-144: the jobUrl is in the database
ExistingJob(existing, job, t) ==
  LET e1 == Update(existing, job)
      e2 == Put(e1, "status", "ACTIVE")
      e3 == Put(e2, "last_seen", isoformat(t))
  IN  Put(e3, "days_since_listed", days(t, fromisoformat(e3.first_seen)))

\* lines 130-152, one iteration for sf[k]
SnapshotStep(st, j, keys0, t) ==
  LET job == st.jobs[j]
      job_url == job.jobUrl
  IN  IF job_url \in keys0
      THEN LET i == DbIndex(st.database, job_url)
           IN  IF ~Has(st.database[i], "first_seen") THEN [st EXCEPT !.raised = TRUE]
               ELSE [st EXCEPT !.database[i] = ExistingJob(st.database[i], job, t),
                               !.updated = Append(st.updated, <<"db", i>>)]
      ELSE [st EXCEPT !.jobs[j] = NewJob(job, t),
                      !.updated = Append(st.updated, <<"cur", j>>),
                      !.new = Append(st.new, <<"cur", j>>)]

RECURSIVE SnapshotLoop(_, _, _, _, _)
SnapshotLoop(st, sf, k, keys0, t) ==
  IF st.raised \/ k > Len(sf) THEN st
  ELSE SnapshotLoop(SnapshotStep(st, sf[k], keys0, t), sf, k + 1, keys0, t)

\* a slip at line 157: every absent record is treated as just closed
JustClosed_always(job) == TRUE

\* line 157
JustClosed(job) == job.status = "ACTIVE"

\* a slip at line 170: <= for <
WithinWindow_inclusive(days_closed) == days_closed <= RetentionDays

\* line 170
WithinWindow(days_closed) == days_closed < RetentionDays

\* a slip at lines 159-160: closing also stamps first_seen
CloseJob_restamp(job, t) ==
  Put(Put(Put(job, "status", "CLOSED"), "closed_date", isoformat(t)), "first_seen", isoformat(t))

\* lines 159-160: an ACTIVE record whose listing is gone
CloseJob(job, t) == Put(Put(job, "status", "CLOSED"), "closed_date", isoformat(t))

\* lines 155-176, one iteration for database[i]
AbsentStep(st, i, current_job_urls, t) ==
  LET job0 == st.database[i]
  IN  IF job0.jobUrl \in current_job_urls THEN st
      ELSE IF ~Has(job0, "status") THEN [st EXCEPT !.raised = TRUE]
      ELSE
        LET closing == JustClosed(job0)
            job1 == IF closing THEN CloseJob(job0, t) ELSE job0
        IN  IF closing /\ ~Has(job1, "title")
            THEN [st EXCEPT !.database[i] = job1, !.raised = TRUE]   \* job['title'] in the log line
            ELSE IF job1.status # "CLOSED" THEN [st EXCEPT !.database[i] = job1]
            ELSE IF ~Has(job1, "closed_date") THEN [st EXCEPT !.database[i] = job1, !.raised = TRUE]
            ELSE
              LET closed_date == fromisoformat(job1.closed_date)
                  days_closed == days(t, closed_date)
                  job2 == Put(job1, "days_until_deletion", Max(0, RetentionDays - days_closed))
              IN  IF WithinWindow(days_closed)
                  THEN IF ~Has(job2, "first_seen")
                       THEN [st EXCEPT !.database[i] = job2, !.raised = TRUE]
                       ELSE [st EXCEPT
                               !.database[i] = Put(job2, "days_since_listed",
                                                   days(closed_date, fromisoformat(job2.first_seen))),
                               !.updated = Append(st.updated, <<"db", i>>)]
                  ELSE IF ~Has(job2, "title")
                       THEN [st EXCEPT !.database[i] = job2, !.raised = TRUE]
                       ELSE [st EXCEPT !.database[i] = job2,
                                       !.deleted = Append(st.deleted, job2.jobUrl)]

RECURSIVE AbsentLoop(_, _, _, _)
AbsentLoop(st, i, current_job_urls, t) ==
  IF st.raised \/ i > Len(st.database) THEN st
  ELSE AbsentLoop(AbsentStep(st, i, current_job_urls, t), i + 1, current_job_urls, t)

\* lines 115-177: everything before the save.  database is what
\* load_job_database returned, sf the filter's output, t is datetime.now()
Merge(database, jobs, sf, t) ==
  LET st0 == [jobs |-> jobs, database |-> database, updated |-> <<>>, new |-> <<>>,
              deleted |-> <<>>, raised |-> FALSE]
  IN  IF \E k \in 1..Len(sf) : ~Has(jobs[sf[k]], "jobUrl") THEN [st0 EXCEPT !.raised = TRUE]
      ELSE IF \E i \in 1..Len(database) : ~Has(database[i], "jobUrl") THEN [st0 EXCEPT !.raised = TRUE]
      ELSE
        LET current_job_urls == { jobs[sf[k]].jobUrl : k \in 1..Len(sf) }
            st1 == SnapshotLoop(st0, sf, 1, DbKeys(database), t)
        IN  AbsentLoop(st1, 1, current_job_urls, t)

\* what json.dump writes / what the caller reads: the dicts behind the references
Resolve(st, refs) == [k \in 1..Len(refs) |-> Deref(st, refs[k])]

(* ---------------- run_check ---------------- *)
\* what fetch_jobs returns: None on a request/parse failure, else the list
FetchNone == [ok |-> FALSE, jobs |-> <<>>]
FetchResults == {FetchNone} \cup { [ok |-> TRUE, jobs |-> js] : js \in JobLists }

NoOutputs == [report |-> "none", dashboard |-> FALSE, csv |-> FALSE, email |-> FALSE,
              backup |-> FALSE]

NoCycle == [outcome |-> "none", fetched |-> TRUE, t |-> 0, read |-> "none", snap |-> <<>>,
            new |-> <<>>, deleted |-> <<>>, saves |-> 0, so |-> "none", out |-> NoOutputs]

\* lines 471-473: fetch_jobs returned None
Aborted(f, t) ==
  [file |-> f, alive |-> TRUE,
   cyc |-> [NoCycle EXCEPT !.outcome = "fetch_failed", !.t = t]]

\* how load_job_database came to its result
ReadKind(f, readOk) ==
  IF f.kind = "absent" THEN "absent"
  ELSE IF f.kind = "json" /\ readOk THEN "ok"
  ELSE "unreadable"

\* a different placement of the save: whatever was merged so far is written
FileAfterMerge_partial(f, m, so) == save_job_database(f, Resolve(m, m.updated), so)

\* line 178 is reached only when lines 117-176 did not raise
FileAfterMerge(f, m, so) ==
  IF m.raised THEN f ELSE save_job_database(f, Resolve(m, m.updated), so)

SavesOfMerge(m) == IF m.raised THEN 0 ELSE 1

\* generate_report reads job['title'], job['publishedAt'], ... of every new job
ReportRaises(new_jobs) == \E k \in 1..Len(new_jobs) : ~Has(new_jobs[k], "title")

\* lines 482-494: what is produced after update_job_database returned new_jobs
Outputs(cfg, new_jobs) ==
  IF ReportRaises(new_jobs) THEN NoOutputs
  ELSE [report |-> IF new_jobs = <<>> THEN "no_new_jobs" ELSE "new_jobs",
        dashboard |-> TRUE,
        csv |-> new_jobs # <<>>,
        email |-> new_jobs # <<>> /\ Get(cfg, "email_enabled", FALSE),
        backup |-> TRUE]

\* lines 476-496
Cycle(f, cfg, t, jobs, readOk, so) ==
  LET sf == filter_san_francisco_jobs(cfg, jobs)
      m == Merge(load_job_database(f, readOk), jobs, sf, t)
      new_jobs == Resolve(m, m.new)
      base == [NoCycle EXCEPT !.t = t, !.read = ReadKind(f, readOk),
                              !.snap = [k \in 1..Len(sf) |-> Get(jobs[sf[k]], "jobUrl", "")]]
  IN  IF m.raised
      THEN [file |-> FileAfterMerge(f, m, so), alive |-> FALSE,
            cyc |-> [base EXCEPT !.outcome = "update_raised", !.saves = SavesOfMerge(m),
                                 !.deleted = m.deleted]]
      ELSE [file |-> FileAfterMerge(f, m, so),
            alive |-> ~ReportRaises(new_jobs),
            cyc |-> [base EXCEPT
                       !.outcome = IF ReportRaises(new_jobs) THEN "report_raised" ELSE "completed",
                       !.new = new_jobs, !.deleted = m.deleted,
                       !.saves = SavesOfMerge(m), !.so = so,
                       !.out = Outputs(cfg, new_jobs)]]

\* a slip at lines 471-473: a failed fetch is carried on with as an empty list
run_check_noabort(f, cfg, t, fr, readOk, so) ==
  LET r == Cycle(f, cfg, t, fr.jobs, readOk, so)
  IN  [r EXCEPT !.cyc.fetched = fr.ok]

\* lines 465-496
run_check(f, cfg, t, fr, readOk, so) ==
  LET r == IF ~fr.ok THEN Aborted(f, t) ELSE Cycle(f, cfg, t, fr.jobs, readOk, so)
  IN  [r EXCEPT !.cyc.fetched = fr.ok]

(* ---------------- the state machine ---------------- *)
VARIABLES
  file,     \* job_data/openai_jobs_database.json
  now,      \* the wall clock, in ticks
  alive,    \* the monitor process is running
  config,   \* self.config
  cyc,      \* what the last run_check did
  call      \* the last direct call of a method: its arguments and its result

vars == <<file, now, alive, config, cyc, call>>

NoCall == [fn |-> "none"]

Init ==
  /\ file = NoFile
  /\ now = 0
  /\ alive = TRUE
  /\ config \in Configs
  /\ cyc = NoCycle
  /\ call = NoCall

\* the scheduler (or --run-once) calls run_check
RunCheck ==
  /\ alive
  /\ \E fr \in FetchResults, readOk \in BOOLEAN, so \in SaveOutcomes :
       \E r \in {run_check(file, config, now, fr, readOk, so)} :
           /\ file' = r.file
           /\ alive' = r.alive
           /\ cyc' = r.cyc
  /\ UNCHANGED <<now, config, call>>

\* time passes: the clock is read tick by tick during the first day, and
\* again from the last tick before the retention of that day's closures ends
Tick ==
  /\ now' = (IF now = TicksPerDay - 1 THEN RetentionDays * TicksPerDay - 1 ELSE now + 1)
  /\ now' <= MaxTime
  /\ UNCHANGED <<file, alive, config, cyc, call>>

\* an exception escaped run_check and ended the process; main() is started again
Restart ==
  /\ ~alive
  /\ alive' = TRUE
  /\ UNCHANGED <<file, now, config, cyc, call>>

Next == RunCheck \/ Tick \/ Restart

Spec == Init /\ [][Next]_vars

(* ---------------- properties ---------------- *)
\* the persisted collection: what a load that can read the file returns
persisted == load_job_database(file, TRUE)

Range(s) == { s[i] : i \in 1..Len(s) }

\* the step is a run_check (Tick moves the clock, Restart needs a dead process)
RunCheckStep == alive /\ now' = now

\* update_job_database returned
Returned(c) == c.outcome \in {"completed", "report_raised"}

\* the cycle read the database, merged and saved without a store failure
MergedOk(c) == Returned(c) /\ c.saves = 1 /\ c.so = "ok" /\ c.read # "unreadable"

\* C1: every snapshot listing whose jobUrl is not in the persisted database at
\* the start of the cycle is in the returned "new" list exactly once, as an
\* ACTIVE record with days_since_listed = 0 and first_seen = last_seen = now.
NewListedExactlyOnce ==
  [][ (RunCheckStep /\ Returned(cyc')) =>
        \A k \in 1..Len(cyc'.snap) :
          cyc'.snap[k] \notin DbKeys(persisted) =>
            /\ Cardinality({ n \in 1..Len(cyc'.new) : cyc'.new[n].jobUrl = cyc'.snap[k] }) = 1
            /\ \A n \in 1..Len(cyc'.new) :
                 cyc'.new[n].jobUrl = cyc'.snap[k] =>
                   /\ cyc'.new[n].status = "ACTIVE"
                   /\ cyc'.new[n].days_since_listed = 0
                   /\ cyc'.new[n].first_seen = isoformat(now)
                   /\ cyc'.new[n].last_seen = isoformat(now) ]_vars

\* C2: the collection written by save_job_database never holds two records
\* with the same jobUrl.
NoDuplicateKeys ==
  \A i, j \in 1..Len(persisted) : i # j => persisted[i].jobUrl # persisted[j].jobUrl

\* C3 as claimed: once a record has a closed_date, no later cycle stores a
\* different closed_date for its key while the key stays in the collection.
ClosedDateNeverOverwritten ==
  [][ \A i \in 1..Len(persisted) : \A j \in 1..Len(persisted') :
        ( /\ persisted'[j].jobUrl = persisted[i].jobUrl
          /\ Has(persisted[i], "closed_date")
          /\ Has(persisted'[j], "closed_date") )
        => persisted'[j].closed_date = persisted[i].closed_date ]_vars

\* C3 as amended: a cycle that merges and saves closes every persisted ACTIVE
\* record whose listing is absent from the snapshot, with closed_date = now; a
\* CLOSED record whose listing stays absent stays CLOSED with the same
\* closed_date for as long as its key is in the persisted collection.
ClosedOnceWhileAbsent ==
  [][ \A i \in 1..Len(persisted) :
        (RunCheckStep => persisted[i].jobUrl \notin Range(cyc'.snap)) =>
          /\ ( /\ persisted[i].status = "ACTIVE"
               /\ RunCheckStep
               /\ MergedOk(cyc') )
             => /\ persisted[i].jobUrl \in DbKeys(persisted')
                /\ \A j \in 1..Len(persisted') :
                     persisted'[j].jobUrl = persisted[i].jobUrl =>
                       /\ persisted'[j].status = "CLOSED"
                       /\ persisted'[j].closed_date = isoformat(now)
          /\ persisted[i].status = "CLOSED"
             => \A j \in 1..Len(persisted') :
                  persisted'[j].jobUrl = persisted[i].jobUrl =>
                    /\ persisted'[j].status = "CLOSED"
                    /\ persisted'[j].closed_date = persisted[i].closed_date ]_vars

\* a record closed in an earlier cycle was kept, still absent, by the last one
ClosedKeptWitness ==
  /\ MergedOk(cyc)
  /\ \E i \in 1..Len(persisted) :
       /\ persisted[i].status = "CLOSED"
       /\ persisted[i].jobUrl \notin Range(cyc.snap)
       /\ fromisoformat(persisted[i].closed_date) < cyc.t

\* C4: after a cycle that merges and saves, a CLOSED record whose listing is
\* absent from the snapshot is in the persisted collection iff its whole days
\* closed are fewer than 5, and no CLOSED record written has 5 or more.
RetentionBoundary ==
  [][ (RunCheckStep /\ MergedOk(cyc')) =>
        /\ \A i \in 1..Len(persisted) :
             ( /\ persisted[i].status = "CLOSED"
               /\ persisted[i].jobUrl \notin Range(cyc'.snap) )
             => ( days(now, fromisoformat(persisted[i].closed_date)) < RetentionDays
                  <=> persisted[i].jobUrl \in DbKeys(persisted') )
        /\ \A j \in 1..Len(persisted') :
             persisted'[j].status = "CLOSED"
             => days(now, fromisoformat(persisted'[j].closed_date)) < RetentionDays ]_vars

\* the last cycle dropped a record closed for 5 whole days
PurgedWitness ==
  /\ MergedOk(cyc)
  /\ cyc.deleted # <<>>
  /\ \A k \in 1..Len(cyc.deleted) : cyc.deleted[k] \notin DbKeys(persisted)

\* C5 as claimed: when a key whose persisted record is CLOSED is in the
\* snapshot again, the cycle stores an ACTIVE record with first_seen = now and
\* days_since_listed = 0.
ReappearanceStartsFresh ==
  [][ (RunCheckStep /\ MergedOk(cyc')) =>
        \A i \in 1..Len(persisted) :
          ( /\ persisted[i].status = "CLOSED"
            /\ persisted[i].jobUrl \in Range(cyc'.snap) )
          => \A j \in 1..Len(persisted') :
               persisted'[j].jobUrl = persisted[i].jobUrl =>
                 /\ persisted'[j].status = "ACTIVE"
                 /\ persisted'[j].first_seen = isoformat(now)
                 /\ persisted'[j].days_since_listed = 0 ]_vars

\* C5 as amended: when a key whose persisted record is CLOSED is in the
\* snapshot again, the cycle sets that record back to ACTIVE with its old
\* first_seen, last_seen = now and days_since_listed = whole days since that
\* first_seen; the listing is not in the "new" list.
ReappearanceKeepsHistory ==
  [][ (RunCheckStep /\ MergedOk(cyc')) =>
        \A i \in 1..Len(persisted) :
          ( /\ persisted[i].status = "CLOSED"
            /\ persisted[i].jobUrl \in Range(cyc'.snap) )
          => /\ persisted[i].jobUrl \in DbKeys(persisted')
             /\ \A n \in 1..Len(cyc'.new) : cyc'.new[n].jobUrl # persisted[i].jobUrl
             /\ \A j \in 1..Len(persisted') :
                  persisted'[j].jobUrl = persisted[i].jobUrl =>
                    /\ persisted'[j].status = "ACTIVE"
                    /\ persisted'[j].first_seen = persisted[i].first_seen
                    /\ persisted'[j].last_seen = isoformat(now)
                    /\ persisted'[j].days_since_listed
                         = days(now, fromisoformat(persisted[i].first_seen)) ]_vars

\* the last cycle reopened a record that was closed, days after it was first seen
ReopenedWitness ==
  /\ MergedOk(cyc)
  /\ \E i \in 1..Len(persisted) :
       /\ persisted[i].status = "ACTIVE"
       /\ Has(persisted[i], "closed_date")
       /\ persisted[i].jobUrl \in Range(cyc.snap)
       /\ persisted[i].last_seen = isoformat(cyc.t)
       /\ persisted[i].days_since_listed > 0

\* C6: when save_job_database fails after it opened the file for writing, the
\* next load returns the collection that was persisted before.
AtomicStoreWrite ==
  [][ (RunCheckStep /\ cyc'.saves = 1 /\ cyc'.so = "write_failed") =>
        load_job_database(file', TRUE) = load_job_database(file, TRUE) ]_vars

\* C7: a cycle whose update_job_database raises does not save and leaves the
\* file as it was; a cycle saves at most once, and what it saves is the whole
\* merge: a record for every snapshot key and for every absent record that is
\* ACTIVE or closed for fewer than 5 days.
NoPartialApplication ==
  [][ RunCheckStep =>
        /\ cyc'.saves <= 1
        /\ cyc'.outcome = "update_raised" => (cyc'.saves = 0 /\ file' = file)
        /\ (cyc'.saves = 1 /\ cyc'.so = "ok") =>
             /\ file'.kind = "json"
             /\ \A k \in 1..Len(cyc'.snap) : cyc'.snap[k] \in DbKeys(file'.data)
             /\ cyc'.read = "ok" =>
                  \A i \in 1..Len(persisted) :
                    ( /\ persisted[i].jobUrl \notin Range(cyc'.snap)
                      /\ \/ persisted[i].status = "ACTIVE"
                         \/ days(now, fromisoformat(persisted[i].closed_date)) < RetentionDays )
                    => persisted[i].jobUrl \in DbKeys(file'.data) ]_vars

\* the last cycle raised in the loop over the database, after it had marked a
\* record CLOSED in memory: the stored record is still ACTIVE
RaisedMidMergeWitness ==
  /\ cyc.outcome = "update_raised"
  /\ cyc.snap = <<>>
  /\ cyc.read = "ok"
  /\ cyc.saves = 0
  /\ \E i \in 1..Len(persisted) : persisted[i].status = "ACTIVE"

\* C8: when fetch_jobs returns None the cycle changes nothing in the database,
\* closes and deletes nothing, produces no report, dashboard, CSV, email or
\* backup, and the process stays alive for the next cycle.
FetchFailureAborts ==
  [][ (RunCheckStep /\ ~cyc'.fetched) =>
        /\ file' = file
        /\ cyc'.saves = 0
        /\ cyc'.deleted = <<>>
        /\ cyc'.out = NoOutputs
        /\ alive' ]_vars

\* the last cycle's fetch failed while an ACTIVE record was stored
FetchFailedWitness ==
  /\ ~cyc.fetched
  /\ cyc.outcome = "fetch_failed"
  /\ alive
  /\ \E i \in 1..Len(persisted) : persisted[i].status = "ACTIVE"

\* C9: when the database file is there but cannot be read, the cycle is
\* aborted: the file is left as it is, nothing is reported as new and nothing
\* is produced.
StoreReadFailureAborts ==
  [][ (RunCheckStep /\ cyc'.read = "unreadable") =>
        /\ file' = file
        /\ cyc'.new = <<>>
        /\ cyc'.out = NoOutputs ]_vars

\* C10: a cycle whose save_job_database failed produces no report, CSV or
\* email for its new listings.
SaveFailureNoReport ==
  (cyc.saves = 1 /\ cyc.so # "ok" /\ cyc.so # "none") =>
    /\ cyc.out.report # "new_jobs"
    /\ ~cyc.out.csv
    /\ ~cyc.out.email

\* a listing of the last snapshot lacks an expected key (jobUrl or title)
MalformedInSnapshot(c) ==
  \/ "" \in Range(c.snap)
  \/ \E n \in 1..Len(c.new) : ~Has(c.new[n], "title")

\* C11: a malformed listing in the snapshot never aborts the cycle: the merge
\* is saved and the report is produced.
MalformedListingDegrades ==
  (cyc.fetched /\ cyc.outcome # "none" /\ MalformedInSnapshot(cyc)) =>
    /\ cyc.outcome = "completed"
    /\ cyc.saves = 1
    /\ cyc.out.report # "none"

\* update_job_database with a store that reads and writes: the collection it
\* saves and the list it returns
Reconcile(db, cfg, jobs, t) ==
  LET m == Merge(db, jobs, filter_san_francisco_jobs(cfg, jobs), t)
  IN  [raised |-> m.raised, new |-> Resolve(m, m.new), db |-> Resolve(m, m.updated)]

\* the clock readings from t on
ReadingsFrom(t) ==
  { r \in t..MaxTime : r < TicksPerDay \/ r >= RetentionDays * TicksPerDay - 1 }

\* the records of a collection without the fields ks
Without(db, ks) == { [k \in (DOMAIN db[i]) \ ks |-> db[i][k]] : i \in 1..Len(db) }

\* C12 as claimed: a second update_job_database with the same snapshot returns
\* no new listing and saves the records of the first, equal in every field
\* but last_seen and days_since_listed.
RerunSameButRefresh ==
  \A js \in JobLists : \A t2 \in ReadingsFrom(now) :
    LET r1 == Reconcile(persisted, config, js, now)
        r2 == Reconcile(r1.db, config, js, t2)
    IN  (~r1.raised /\ ~r2.raised) =>
          /\ r2.new = <<>>
          /\ Without(r2.db, {"last_seen", "days_since_listed"})
               = Without(r1.db, {"last_seen", "days_since_listed"})

\* the records of a collection that are not CLOSED for RetentionDays or more at t
Retained(db, t) ==
  SelectSeq(db, LAMBDA r : ~( /\ r.status = "CLOSED"
                              /\ days(t, fromisoformat(r.closed_date)) >= RetentionDays ))

\* C12 as amended: a second update_job_database with the same snapshot returns
\* no new listing and saves the records of the first, less the CLOSED ones
\* that have by then been closed for 5 whole days, equal in every field but
\* last_seen, days_since_listed and days_until_deletion.
RerunSameButRefreshAndRetention ==
  \A js \in JobLists : \A t2 \in ReadingsFrom(now) :
    LET r1 == Reconcile(persisted, config, js, now)
        r2 == Reconcile(r1.db, config, js, t2)
    IN  (~r1.raised /\ ~r2.raised) =>
          /\ r2.new = <<>>
          /\ Without(r2.db, {"last_seen", "days_since_listed", "days_until_deletion"})
               = Without(Retained(r1.db, t2),
                         {"last_seen", "days_since_listed", "days_until_deletion"})

\* a stored collection on which a first run closes and keeps a record and a
\* later second run with the same snapshot changes its days_until_deletion
RerunWitness ==
  /\ persisted # <<>>
  /\ \E js \in JobLists : \E t2 \in ReadingsFrom(now) :
       LET r1 == Reconcile(persisted, config, js, now)
           r2 == Reconcile(r1.db, config, js, t2)
       IN  /\ ~r1.raised /\ ~r2.raised
           /\ r1.db # <<>>
           /\ r2.db # <<>>
           /\ r1.db[1].status = "CLOSED"
           /\ r2.db[1].days_until_deletion # r1.db[1].days_until_deletion

\* C13: the "new" list holds exactly the snapshot listings whose key was not in
\* the persisted database at the start of the cycle; a listing that has a
\* persisted record, CLOSED or ACTIVE, is never in it.
NewIsExactlyCreated ==
  [][ (RunCheckStep /\ Returned(cyc')) =>
        /\ DbKeys(cyc'.new) = Range(cyc'.snap) \ DbKeys(persisted)
        /\ \A i \in 1..Len(persisted) : persisted[i].jobUrl \notin DbKeys(cyc'.new) ]_vars

\* C14: in a cycle that starts with no persisted state, no listing published
\* more than first_run_days before now is in the "new" list.
FirstRunWindowLimitsNew ==
  (Returned(cyc) /\ cyc.read = "absent") =>
    \A n \in 1..Len(cyc.new) :
      days(cyc.t, fromisoformat(cyc.new[n].publishedAt)) <= config.first_run_days

\* the age a record of the store should carry: counted up to last_seen while
\* ACTIVE, up to closed_date once CLOSED
ListedDays(r) ==
  IF r.status = "CLOSED"
  THEN days(fromisoformat(r.closed_date), fromisoformat(r.first_seen))
  ELSE days(fromisoformat(r.last_seen), fromisoformat(r.first_seen))

\* C15: in every persisted collection an ACTIVE record has days_since_listed =
\* whole days of (last_seen - first_seen) and a CLOSED record has
\* days_since_listed = whole days of (closed_date - first_seen); and a record
\* that is CLOSED before and after a step has the same days_since_listed.
DaysSinceListedTracksReference ==
  /\ [](\A i \in 1..Len(persisted) : persisted[i].days_since_listed = ListedDays(persisted[i]))
  /\ [][ \A i \in 1..Len(persisted) : \A j \in 1..Len(persisted') :
           ( /\ persisted[i].jobUrl = persisted'[j].jobUrl
             /\ persisted[i].status = "CLOSED"
             /\ persisted'[j].status = "CLOSED" )
           => persisted'[j].days_since_listed = persisted[i].days_since_listed ]_vars

\* a record closed some whole days after it was first seen is still in the
\* store, CLOSED, after a later cycle that saved
FrozenAgeWitness ==
  /\ MergedOk(cyc)
  /\ \E i \in 1..Len(persisted) :
       /\ persisted[i].status = "CLOSED"
       /\ persisted[i].days_since_listed > 0
       /\ fromisoformat(persisted[i].closed_date) < cyc.t

\* the countdown line 167 gives a CLOSED record in a cycle that runs at t
DaysUntilDeletion(r, t) == Max(0, RetentionDays - days(t, fromisoformat(r.closed_date)))

\* C16: in the collection a cycle writes, no ACTIVE record has a
\* days_until_deletion field, and every CLOSED record has
\* days_until_deletion = max(0, 5 - days_closed) for that cycle's days_closed.
DeletionCountdownOnlyWhenClosed ==
  [][ (RunCheckStep /\ MergedOk(cyc')) =>
        \A j \in 1..Len(persisted') :
          /\ persisted'[j].status = "ACTIVE" => ~Has(persisted'[j], "days_until_deletion")
          /\ persisted'[j].status = "CLOSED" =>
               /\ Has(persisted'[j], "days_until_deletion")
               /\ persisted'[j].days_until_deletion = DaysUntilDeletion(persisted'[j], now) ]_vars

\* C18: across a cycle in which nothing failed (store read, merge and save), a key whose record is in the
\* persisted collection before and after, and does not go from CLOSED to
\* ACTIVE, keeps its first_seen.
FirstSeenImmutable ==
  [][ (RunCheckStep /\ MergedOk(cyc')) =>
        \A i \in 1..Len(persisted) : \A j \in 1..Len(persisted') :
          ( /\ persisted[i].jobUrl = persisted'[j].jobUrl
            /\ ~(persisted[i].status = "CLOSED" /\ persisted'[j].status = "ACTIVE") )
          => persisted'[j].first_seen = persisted[i].first_seen ]_vars

\* a record created at an earlier reading was closed by the cycle that just
\* saved, or was seen again by it without ever having been closed
FirstSeenKeptWitness ==
  /\ MergedOk(cyc)
  /\ \E i \in 1..Len(persisted) :
       /\ fromisoformat(persisted[i].first_seen) < cyc.t
       /\ \/ persisted[i].status = "CLOSED" /\ fromisoformat(persisted[i].closed_date) = cyc.t
          \/ /\ persisted[i].status = "ACTIVE"
             /\ ~Has(persisted[i], "closed_date")
             /\ fromisoformat(persisted[i].last_seen) = cyc.t

(* ---------------- the lifecycle under the daily schedule ---------------- *)
\* enough clock readings for a listing closed on the second day to pass the
\* retention window
LifeMaxTime == (RetentionDays + 1) * TicksPerDay

\* run_check has run at the current clock reading
RanNow == cyc.outcome # "none" /\ cyc.t = now

\* the listings of Urls are on the board during the first day at most
ListedIn(fr) == fr.jobs # <<>>

\* the fetches that succeed and bring well-formed listings only
LifeFetches ==
  { fr \in FetchResults :
      /\ fr.ok
      /\ \A k \in 1..Len(fr.jobs) : Has(fr.jobs[k], "jobUrl") /\ Has(fr.jobs[k], "title") }

\* the scheduler calls run_check once per clock reading; the fetch, the store
\* and the report all work
LifeRunCheck ==
  /\ alive
  /\ ~RanNow
  /\ \E fr \in LifeFetches :
       /\ now >= TicksPerDay => ~ListedIn(fr)
       /\ \E r \in {run_check(file, config, now, fr, TRUE, "ok")} :
            /\ r.cyc.outcome = "completed"
            /\ file' = r.file
            /\ alive' = r.alive
            /\ cyc' = r.cyc
  /\ UNCHANGED <<now, config, call>>

\* the clock advances one tick at a time, after the cycle of this reading
LifeTick ==
  /\ RanNow
  /\ now < LifeMaxTime
  /\ now' = now + 1
  /\ UNCHANGED <<file, alive, config, cyc, call>>

LifeNext == LifeRunCheck \/ LifeTick

\* lines 498-507: the scheduler loop never stops and time never stops
LifeSpec == Init /\ [][LifeNext]_vars /\ WF_vars(LifeRunCheck) /\ WF_vars(LifeTick)

\* C17: a persisted listing that is absent from every snapshot from some cycle
\* on is eventually removed from the persisted collection and stays out, and a
\* listing leaves the collection only from CLOSED.
LifecycleEnds ==
  /\ \A u \in Urls :
       [](u \in DbKeys(persisted) => <>[](u \notin DbKeys(persisted)))
  /\ [][ \A i \in 1..Len(persisted) :
           persisted[i].jobUrl \notin DbKeys(persisted') => persisted[i].status = "CLOSED" ]_vars

\* the cycle that just ran deleted a listing that had been closed at least
\* RetentionDays before, and the store is empty again
LifecycleEndedWitness ==
  /\ RanNow
  /\ cyc.deleted # <<>>
  /\ persisted = <<>>
  /\ now >= RetentionDays * TicksPerDay

(* ---------------- direct calls of the pure methods ---------------- *)
RemoteUS == <<"R","e","m","o","t","e">>
Brasfield == <<"B","r","a","s","f","i","e","l","d">>

\* a key of a listing may be missing
OptOf(S) == {<<>>} \cup { <<x>> : x \in S }
Opt(d, k, o) == IF o = <<>> THEN d ELSE Put(d, k, o[1])

ProbeLocations == {SanFranciscoCA, NewYork, SFBayArea, RemoteUS, Brasfield}

ProbeSecondaries ==
  { <<>>,
    <<[location |-> NewYork]>>,
    <<[location |-> SFBayArea]>>,
    <<[location |-> NewYork], [location |-> SanFranciscoCA]>>,
    <<[locationId |-> "x"]>> }

ProbeJobs ==
  { Opt(Opt(Opt([jobUrl |-> "u1", title |-> "t"], "location", l), "secondaryLocations", s),
        "isRemote", r) :
      l \in OptOf(ProbeLocations), s \in OptOf(ProbeSecondaries), r \in OptOf(BOOLEAN) }

ProbeConfigs ==
  { [email_enabled |-> FALSE],
    [email_enabled |-> FALSE, include_remote |-> <<>>],
    [email_enabled |-> FALSE, include_remote |-> <<"remote">>],
    [email_enabled |-> FALSE, include_remote |-> <<"hybrid">>],
    [email_enabled |-> FALSE, include_remote |-> <<"hybrid", "remote">>] }

\* monitor.filter_san_francisco_jobs([job]) on a monitor configured with cfg
FilterCall ==
  /\ call = NoCall
  /\ \E cfg \in ProbeConfigs, job \in ProbeJobs :
       call' = [fn |-> "filter_san_francisco_jobs", cfg |-> cfg, jobs |-> <<job>>,
                result |-> filter_san_francisco_jobs(cfg, <<job>>)]
  /\ UNCHANGED <<file, now, alive, config, cyc>>

\* a location keyword is in loc, letter case aside
MentionsKeyword(loc) ==
  \E k \in 1..Len(sf_keywords) : \E o \in 0..(Len(loc) - Len(sf_keywords[k])) :
    \A i \in 1..Len(sf_keywords[k]) : LowerChar(loc[o + i]) = sf_keywords[k][i]

PrimaryMatches(job) == Has(job, "location") /\ MentionsKeyword(job.location)

SecondaryMatches(job) ==
  /\ Has(job, "secondaryLocations")
  /\ \E s \in 1..Len(job.secondaryLocations) :
       /\ Has(job.secondaryLocations[s], "location")
       /\ MentionsKeyword(job.secondaryLocations[s].location)

RemoteOptIn(cfg, job) ==
  /\ Has(job, "isRemote") /\ job.isRemote
  /\ Has(cfg, "include_remote") /\ "remote" \in Range(cfg.include_remote)

\* C19: the filter includes a listing if and only if a location keyword is a
\* case-insensitive substring of its primary location or of one of its
\* secondary locations, or it is flagged remote and the configuration opts in.
RelevanceRule ==
  call.fn = "filter_san_francisco_jobs" =>
    \A j \in 1..Len(call.jobs) :
      (j \in Range(call.result)) <=>
        \/ PrimaryMatches(call.jobs[j])
        \/ SecondaryMatches(call.jobs[j])
        \/ RemoteOptIn(call.cfg, call.jobs[j])

\* a remote listing located nowhere near is included because of the opt-in
RemoteOptInWitness ==
  /\ call.fn = "filter_san_francisco_jobs"
  /\ call.result # <<>>
  /\ Has(call.jobs[1], "location") /\ call.jobs[1].location = RemoteUS
  /\ ~PrimaryMatches(call.jobs[1]) /\ ~SecondaryMatches(call.jobs[1])
  /\ RemoteOptIn(call.cfg, call.jobs[1])

(* ---------------- extract_compensation ---------------- *)
\* JSON values as json.load gives them, tagged with their Python type; a str
\* is a sequence of characters, a dict a function from its keys
JNull == [t |-> "null"]
JNum(n) == [t |-> "num", num |-> n]
JStr(s) == [t |-> "str", str |-> s]
JList(s) == [t |-> "list", list |-> s]
JDict(d) == [t |-> "dict", dict |-> d]

\* bool(x)
Truthy(x) ==
  CASE x.t = "null" -> FALSE
    [] x.t = "num" -> x.num # 0
    [] x.t = "dict" -> DOMAIN x.dict # {}
    [] x.t = "list" -> x.list # <<>>
    [] x.t = "str" -> x.str # <<>>

Salary == <<"S","a","l","a","r","y">>
EquityPercentage == <<"E","q","u","i","t","y","P","e","r","c","e","n","t","a","g","e">>
EquityCashValue == <<"E","q","u","i","t","y","C","a","s","h","V","a","l","u","e">>
Bonus == <<"B","o","n","u","s">>
USD == <<"U","S","D">>
Offered == <<"O","f","f","e","r","e","d">>
Yes == <<"Y","e","s">>

\* lines 183-191
EmptySummary ==
  [salary_summary |-> <<>>, salary_range |-> <<>>, salary_min |-> <<>>, salary_max |-> <<>>,
   equity |-> <<>>, bonus |-> <<>>, full_compensation |-> <<>>]

\* characters outside ASCII: U+2013, U+2014, U+2022 and any other one
NonAscii == {"EN_DASH", "EM_DASH", "BULLET", "E_ACUTE"}

\* str.replace(a, b) for single characters
Replace(s, a, b) == [i \in 1..Len(s) |-> IF s[i] = a THEN b ELSE s[i]]

\* lines 203-210: the replace chain, then encode('ascii', 'ignore')
Sanitize(s) ==
  LET s1 == Replace(s, "EN_DASH", "-")
      s2 == Replace(s1, "EM_DASH", "-")
      s3 == Replace(s2, "BULLET", "BULLET")
  IN  SelectSeq(s3, LAMBDA c : c \notin NonAscii)

DigitChar(d) ==
  CASE d = 0 -> "0" [] d = 1 -> "1" [] d = 2 -> "2" [] d = 3 -> "3" [] d = 4 -> "4"
    [] d = 5 -> "5" [] d = 6 -> "6" [] d = 7 -> "7" [] d = 8 -> "8" [] d = 9 -> "9"

\* str(int(n)) for n >= 0
RECURSIVE Digits(_)
Digits(n) == IF n < 10 THEN <<DigitChar(n)>> ELSE Digits(n \div 10) \o <<DigitChar(n % 10)>>

\* the "," of the format spec: groups of three digits from the right
RECURSIVE Commas(_)
Commas(ds) ==
  IF Len(ds) <= 3 THEN ds
  ELSE Commas(SubSeq(ds, 1, Len(ds) - 3)) \o <<",">> \o SubSeq(ds, Len(ds) - 2, Len(ds))

\* f"{x:,.0f}" formats numbers only
CanFormat(x) == x.t = "num"
Money(x) == <<"$">> \o Commas(Digits(x.num))

\* f"{x}" of a number or a str
Plain(x) == IF x.t = "num" THEN Digits(x.num) ELSE x.str

\* lines 222-236, comp_type == 'Salary'; st is [info, failed]
SalaryComponent(st, min_val, max_val, currency) ==
  IF Truthy(min_val) /\ Truthy(max_val)
  THEN IF ~(CanFormat(min_val) /\ CanFormat(max_val)) THEN [st EXCEPT !.failed = TRUE]
       ELSE [st EXCEPT
               !.info.salary_summary =
                  Money(min_val) \o <<" ","-"," ">> \o Money(max_val) \o <<" ">> \o Plain(currency),
               !.info.salary_min = Digits(min_val.num),
               !.info.salary_max = Digits(max_val.num)]
  ELSE IF Truthy(min_val)
  THEN IF ~CanFormat(min_val) THEN [st EXCEPT !.failed = TRUE]
       ELSE [st EXCEPT
               !.info.salary_summary = Money(min_val) \o <<" ">> \o Plain(currency),
               !.info.salary_min = Digits(min_val.num),
               !.info.salary_max = Digits(min_val.num)]
  ELSE IF Truthy(max_val)
  THEN IF ~CanFormat(max_val) THEN [st EXCEPT !.failed = TRUE]
       ELSE [st EXCEPT
               !.info.salary_summary =
                  <<"U","p"," ","t","o"," ">> \o Money(max_val) \o <<" ">> \o Plain(currency),
               !.info.salary_min = Digits(max_val.num),
               !.info.salary_max = Digits(max_val.num)]
  ELSE st

\* lines 216-242, one iteration of the loop
ComponentStep(st, component) ==
  IF component.t # "dict" THEN [st EXCEPT !.failed = TRUE]      \* no .get
  ELSE
    LET comp_type == Get(component.dict, "compensationType", JStr(<<>>))
        min_val == Get(component.dict, "minValue", JNull)
        max_val == Get(component.dict, "maxValue", JNull)
        currency == Get(component.dict, "currencyCode", JStr(USD))
    IN  IF comp_type = JStr(Salary) THEN SalaryComponent(st, min_val, max_val, currency)
        ELSE IF comp_type = JStr(EquityPercentage) /\ Truthy(min_val) /\ Truthy(max_val)
        THEN [st EXCEPT !.info.equity =
                Plain(min_val) \o <<"%"," ","-"," ">> \o Plain(max_val) \o <<"%">>]
        ELSE IF comp_type = JStr(EquityCashValue) THEN [st EXCEPT !.info.equity = Offered]
        ELSE IF comp_type = JStr(Bonus)
        THEN [st EXCEPT !.info.bonus =
                IF Truthy(min_val) \/ Truthy(max_val) THEN Yes ELSE Offered]
        ELSE st

RECURSIVE ComponentLoop(_, _, _)
ComponentLoop(st, comps, k) ==
  IF st.failed \/ k > Len(comps) THEN st
  ELSE ComponentLoop(ComponentStep(st, comps[k]), comps, k + 1)

\* lines 199-248: the body of the try, and the except that returns
\* compensation_info as it is by then
TryBody(compensation) ==
  LET st0 == [info |-> EmptySummary, failed |-> FALSE]
      full_comp_raw == Get(compensation, "compensationTierSummary", JStr(<<>>))
      salary_range == Get(compensation, "scrapeableCompensationSalarySummary", JStr(<<>>))
      summary_components == Get(compensation, "summaryComponents", JList(<<>>))
  IN  IF full_comp_raw.t # "str" THEN [st0 EXCEPT !.failed = TRUE]     \* no .replace
      ELSE
        LET st1 == [st0 EXCEPT !.info.full_compensation = Sanitize(full_comp_raw.str),
                               !.info.salary_range = Plain(salary_range)]
        IN  IF summary_components.t # "list" THEN [st1 EXCEPT !.failed = TRUE]
            ELSE ComponentLoop(st1, summary_components.list, 1)

\* lines 181-248.  escaped: an exception left the function (line 196 is
\* outside the try); failed: an exception was raised at all
extract_compensation(job) ==
  LET compensation == Get(job, "compensation", JDict(<<>>))
  IN  IF ~Truthy(compensation) THEN [escaped |-> FALSE, failed |-> FALSE, info |-> EmptySummary]
      ELSE IF compensation.t # "dict"
      THEN [escaped |-> TRUE, failed |-> TRUE, info |-> EmptySummary]
      ELSE IF ~Truthy(Get(compensation.dict, "compensationTierSummary", JNull))
      THEN [escaped |-> FALSE, failed |-> FALSE, info |-> EmptySummary]
      ELSE LET st == TryBody(compensation.dict)
           IN  [escaped |-> FALSE, failed |-> st.failed, info |-> st.info]

(* ---------------- inputs of extract_compensation ---------------- *)
MaxComponents == 2

\* what minValue and maxValue can be: absent (null), zero, a salary, or text
MinValues == {JNull, JNum(0), JNum(90000), JStr(<<"n","/","a">>)}
MaxValues == {JNull, JNum(0), JNum(150000)}

SalaryComponents ==
  { JDict([compensationType |-> JStr(Salary), minValue |-> a, maxValue |-> b]) :
      a \in MinValues, b \in MaxValues }
    \cup { JDict([compensationType |-> JStr(Salary), minValue |-> JNum(90000),
                  maxValue |-> JNum(150000), currencyCode |-> JStr(<<"E","U","R">>)]) }

OtherComponents ==
  { JDict([compensationType |-> JStr(EquityPercentage), minValue |-> JNum(1), maxValue |-> JNum(2)]),
    JDict([compensationType |-> JStr(Bonus), minValue |-> JNull, maxValue |-> JNull]),
    JDict([compensationType |-> JStr(Bonus), minValue |-> JNum(1), maxValue |-> JNull]),
    JDict([compensationType |-> JStr(EquityCashValue)]),
    JStr(<<"x">>) }

ComponentLists ==
  UNION { [1..n -> SalaryComponents \cup OtherComponents] : n \in 0..MaxComponents }

TierSummaries ==
  { <<"$","9","0","K"," ","EN_DASH"," ","$","1","5","0","K">>,
    <<"$","9","0","K"," ","BULLET"," ","E","q","u","i","t","y">> }

\* the compensation blocks handed to extract_compensation
CompensationBlocks ==
  { JNull, JDict(<<>>), JList(<<>>), JStr(<<"D","O","E">>), JNum(1),
    JDict([compensationTierSummary |-> JNull]),
    JDict([compensationTierSummary |-> JStr(<<>>)]),
    JDict([compensationTierSummary |-> JNum(1)]),
    JDict([compensationTierSummary |-> JStr(<<"$","9","0","K">>),
           summaryComponents |-> JNull]) }
    \cup { JDict([compensationTierSummary |-> JStr(ts), summaryComponents |-> JList(cs)]) :
             ts \in TierSummaries, cs \in ComponentLists }
    \cup { JDict([compensationTierSummary |-> JStr(ts), summaryComponents |-> JList(cs),
                  scrapeableCompensationSalarySummary |-> JStr(<<"$","9","0","K">>)]) :
             ts \in TierSummaries, cs \in ComponentLists }

CompensationJobs ==
  { [title |-> "t"] } \cup { [title |-> "t", compensation |-> b] : b \in CompensationBlocks }

\* monitor.extract_compensation(job)
CompCall ==
  /\ call = NoCall
  /\ \E job \in CompensationJobs :
       call' = [fn |-> "extract_compensation", job |-> job, result |-> extract_compensation(job)]
  /\ UNCHANGED <<file, now, alive, config, cyc>>

\* C20: extract_compensation lets no exception escape, and when an exception
\* was raised inside it the summary it returns is the all-empty one.
CompensationFailsToEmpty ==
  call.fn = "extract_compensation" =>
    /\ ~call.result.escaped
    /\ call.result.failed => call.result.info = EmptySummary

CallNext == FilterCall \/ CompCall

CallSpec == Init /\ [][CallNext]_vars

\* the components extract_compensation scans, when it gets as far as the loop
ScannedComponents(job) ==
  IF /\ Has(job, "compensation") /\ job.compensation.t = "dict"
     /\ Truthy(Get(job.compensation.dict, "compensationTierSummary", JNull))
     /\ Get(job.compensation.dict, "summaryComponents", JNull).t = "list"
  THEN job.compensation.dict.summaryComponents.list
  ELSE <<>>

\* the positions of the Salary components
SalaryAt(comps) ==
  { k \in 1..Len(comps) :
      comps[k].t = "dict" /\ Get(comps[k].dict, "compensationType", JNull) = JStr(Salary) }

\* C21: when extract_compensation returns without a parse failure, the last
\* Salary component scanned determines salary_min and salary_max: its two
\* bounds when both are numbers, its one bound for both when only one is a
\* number, whatever the number (0 included).
SalaryBoundsFromLastComponent ==
  (call.fn = "extract_compensation" /\ ~call.result.failed) =>
    LET comps == ScannedComponents(call.job)
        S == SalaryAt(comps)
    IN  S # {} =>
          LET c == comps[CHOOSE k \in S : \A l \in S : l <= k].dict
              lo == Get(c, "minValue", JNull)
              hi == Get(c, "maxValue", JNull)
              info == call.result.info
          IN  /\ (lo.t = "num" /\ hi.t = "num") =>
                   info.salary_min = Digits(lo.num) /\ info.salary_max = Digits(hi.num)
              /\ (lo.t = "num" /\ hi.t = "null") =>
                   info.salary_min = Digits(lo.num) /\ info.salary_max = Digits(lo.num)
              /\ (lo.t = "null" /\ hi.t = "num") =>
                   info.salary_min = Digits(hi.num) /\ info.salary_max = Digits(hi.num)

\* C22: after a cycle that merged and saved, every key of the snapshot has a
\* record, every record of a snapshot key is ACTIVE with last_seen = now, and
\* every record of another key is CLOSED.
SnapshotPartitionsStore ==
  [][ (RunCheckStep /\ Returned(cyc') /\ cyc'.saves = 1 /\ cyc'.so = "ok") =>
        /\ Range(cyc'.snap) \subseteq DbKeys(persisted')
        /\ \A j \in 1..Len(persisted') :
             IF persisted'[j].jobUrl \in Range(cyc'.snap)
             THEN /\ persisted'[j].status = "ACTIVE"
                  /\ persisted'[j].last_seen = isoformat(now)
             ELSE persisted'[j].status = "CLOSED" ]_vars

\* the cycle that just saved found in its snapshot a listing whose record had
\* been closed at an earlier reading
SnapshotReopensWitness ==
  /\ Returned(cyc) /\ cyc.saves = 1 /\ cyc.so = "ok" /\ cyc.read = "ok"
  /\ \E i \in 1..Len(persisted) :
       /\ persisted[i].jobUrl \in Range(cyc.snap)
       /\ Has(persisted[i], "closed_date")
       /\ fromisoformat(persisted[i].closed_date) < cyc.t
       /\ persisted[i].last_seen = isoformat(cyc.t)

\* a record without its deletion countdown
Sans(r) == [k \in (DOMAIN r) \ {"days_until_deletion"} |-> r[k]]

\* C23: a run_check step that finds a persisted CLOSED record's listing absent
\* from the snapshot and keeps the record leaves every field of it other than
\* days_until_deletion as it was.
RetainedClosedReadOnly ==
  [][ RunCheckStep =>
        \A i \in 1..Len(persisted) : \A j \in 1..Len(persisted') :
          ( /\ persisted[i].status = "CLOSED"
            /\ persisted[i].jobUrl \notin Range(cyc'.snap)
            /\ persisted'[j].jobUrl = persisted[i].jobUrl )
          => Sans(persisted'[j]) = Sans(persisted[i]) ]_vars

\* the cycle that just saved kept a record closed on an earlier day and
\* lowered its countdown
RetainedCountdownWitness ==
  /\ MergedOk(cyc)
  /\ cyc.snap = <<>>
  /\ \E i \in 1..Len(persisted) :
       /\ persisted[i].status = "CLOSED"
       /\ fromisoformat(persisted[i].closed_date) < cyc.t
       /\ persisted[i].days_until_deletion = DaysUntilDeletion(persisted[i], cyc.t)
       /\ persisted[i].days_until_deletion < RetentionDays

\* C24: the filter's output holds each input listing at most once, in input
\* order (the positions it returns are strictly increasing).
FilterOutputNoRepeats ==
  call.fn = "filter_san_francisco_jobs" =>
    \A a, b \in 1..Len(call.result) : a < b => call.result[a] < call.result[b]
====
